---- MODULE Spec2Model ----
(***************************************************************************)
(* The hospital management application (src/app.py): the User,             *)
(* Appointment, Treatment and DoctorAvailability tables and the handlers   *)
(* that write them: booking, cancelling, rescheduling and completing       *)
(* appointments, declaring and withdrawing availability, registration and  *)
(* the admin's handling of accounts.  In Spec, SpecUsers, SpecAvail,       *)
(* SpecDecoupled, SpecAccounts, SpecStore and SpecUpcoming every request   *)
(* runs to its commit before the next one starts (one action per request); *)
(* SpecRace and SpecStatusRace split a request into the step that reads    *)
(* and checks and the step that writes and commits, on several workers.    *)
(* SpecAccounts starts from the database init_db leaves (Init), in which   *)
(* the admin is the only user; the specifications of the appointments      *)
(* start from Staffed, the database after the admin has created the        *)
(* doctors and the patients have registered.                               *)
(***************************************************************************)
EXTENDS Integers, Sequences, FiniteSets

\* ------------------------------------------------------------------ bounds
NumDoctors == 2
NumPatients == 2
MaxTime == 1
MaxAppts == 2
NumTexts == 2
MaxDate == 1
MaxClock == 3
MaxSlotId == 2
NumWorkers == 2
MaxNewUsers == 1

\* ------------------------------------------------------------------- users
\* init_db seeds the admin as the first row of the User table.
AdminId == 1
Doctors == (AdminId + 1)..(AdminId + NumDoctors)
Patients == (AdminId + NumDoctors + 1)..(AdminId + NumDoctors + NumPatients)
Users == {AdminId} \cup Doctors \cup Patients
NumUsers == 1 + NumDoctors + NumPatients
\* The ids the User table can hold: the users above and the accounts made
\* later by register and admin_create_doctor.
MaxUsers == NumUsers + MaxNewUsers
UserIds == 1..MaxUsers

\* The role the users above were created with.
SeedRole(u) ==
  IF u = AdminId THEN "admin" ELSE IF u \in Doctors THEN "doctor" ELSE "patient"

\* ------------------------------------------------------------------ inputs
\* Timestamps at minute resolution, and the reading of the clock.
Times == 0..MaxTime
\* <int:appointment_id> of the URL; ids above the table's size find no row.
ApptIds == 1..MaxAppts
\* A treatment text field after .strip().
Texts == 1..NumTexts
\* The (diagnosis, prescription, notes) of a complete form: the fields of one
\* form are not all equal, and two different forms differ in every field.
TextInputs ==
  {<<d, (d % NumTexts) + 1, ((d + 1) % NumTexts) + 1>> : d \in Texts}
\* The date and time fields of a form: absent, not "%Y-%m-%d %H:%M", or the
\* text of a timestamp.
RawWhen ==
  {[kind |-> "ok", value |-> t] : t \in Times}
    \cup {[kind |-> "missing", value |-> 0], [kind |-> "malformed", value |-> 0]}

\* The doctor_id field of the booking form: absent, text that int() refuses,
\* or the decimal text of an id.
RawDoctor(ids) ==
  {[kind |-> "ok", value |-> d] : d \in ids}
    \cup {[kind |-> "missing", value |-> 0], [kind |-> "malformed", value |-> 0]}

\* An optional value: <<>> when the handler holds none.
None == <<>>
Some(x) == <<x>>

VARIABLES
  appts,       \* the Appointment table; a row's id is its index
  treatments,  \* the Treatment table; a row's id is its index
  now,         \* datetime.now()
  last,        \* the latest request, what the handler read of it, and its outcome
  active,      \* User.is_active_flag of every user
  slots,       \* the DoctorAvailability table, a set of rows with their ids
  inflight,    \* per worker, the booking that has read and not yet committed
  accounts     \* the User table (email, role); a row's id is its index

vars == <<appts, treatments, now, last, active, slots, inflight, accounts>>

Statuses == {"Booked", "Completed", "Cancelled"}

\* class User: an email is a number.
UserRow(email, role) == [email |-> email, role |-> role]

\* The User table init_db leaves in an empty database: the admin alone.
FreshAccounts == <<UserRow(AdminId, "admin")>>

\* The User table once the admin has created the doctors and the patients
\* have registered, in that order, each under an email of their own: the
\* rows admin_create_doctor and register append to the table of init_db.
SeedAccounts == [u \in 1..NumUsers |-> UserRow(u, SeedRole(u))]

\* User.role, as current_user.role and the role filters of the queries read
\* it.
Role(u) == IF u \in 1..Len(accounts) THEN accounts[u].role ELSE "none"

\* A row that takes the doctor for the patient and the patient for the
\* doctor.
AppointmentRow_Swapped(p, d, t, s) ==
  [patient_id |-> d, doctor_id |-> p, date_time |-> t, status |-> s]

\* class Appointment
AppointmentRow(p, d, t, s) ==
  [patient_id |-> p, doctor_id |-> d, date_time |-> t, status |-> s]

\* class Treatment
TreatmentRow(a, text) ==
  [appointment_id |-> a, diagnosis |-> text[1], prescription |-> text[2],
   notes |-> text[3]]

Request(op, actor, target, doctor, dt, text, outcome) ==
  [op |-> op, actor |-> actor, target |-> target, doctor |-> doctor,
   dt |-> dt, text |-> text, outcome |-> outcome]

\* A lookup by id alone, whoever the patient is.
ApptOfPatient_Mut(id, actor) == id \in 1..Len(appts)

\* Appointment.query.filter_by(id=..., patient_id=current_user.id).first()
ApptOfPatient(id, actor) ==
  id \in 1..Len(appts) /\ appts[id].patient_id = actor

\* Appointment.query.filter_by(id=..., doctor_id=current_user.id).first()
ApptOfDoctor(id, actor) ==
  id \in 1..Len(appts) /\ appts[id].doctor_id = actor

\* backref "treatment" of Treatment.appointment: the collection of the
\* Treatment rows whose appointment_id is the appointment's id.
TreatmentsOf(id) ==
  {k \in 1..Len(treatments) : treatments[k].appointment_id = id}

\* datetime.strptime(f"{date_str} {time_str}", "%Y-%m-%d %H:%M")
ParseOk(w) == w.kind = "ok"
Parsed(w) == w.value

\* The server's request threads, each with a database session of its own.
Workers == 1..NumWorkers

\* init_db on an empty database: the admin is the only user, and no table
\* but User and Department holds a row.
Init ==
  /\ appts = <<>>
  /\ treatments = <<>>
  /\ now = 0
  /\ last = Request("init", 0, None, None, None, None, "Success")
  /\ active = [u \in UserIds |-> TRUE]
  /\ slots = {}
  /\ inflight = [wk \in Workers |-> None]
  /\ accounts = FreshAccounts

\* The database in which the appointments are followed: that of init_db
\* after the requests that create the doctors and register the patients,
\* none of which writes a table other than User.
Staffed ==
  /\ appts = <<>>
  /\ treatments = <<>>
  /\ now = 0
  /\ last = Request("init", 0, None, None, None, None, "Success")
  /\ active = [u \in UserIds |-> TRUE]
  /\ slots = {}
  /\ inflight = [wk \in Workers |-> None]
  /\ accounts = SeedAccounts

\* A conflict check that also refuses a doctor who has declared no slot.
ExistingForBook_NeedsSlot(doctor_id, dt) ==
  \/ \E i \in 1..Len(appts) :
       /\ appts[i].doctor_id = doctor_id
       /\ appts[i].date_time = dt
       /\ appts[i].status # "Cancelled"
  \/ ~\E r \in slots : r.doctor_id = doctor_id

\* A conflict check that counts Cancelled rows too.
ExistingForBook_Any(doctor_id, dt) ==
  \E i \in 1..Len(appts) :
    /\ appts[i].doctor_id = doctor_id
    /\ appts[i].date_time = dt

\* A conflict check that lets only Booked rows block.
ExistingForBook_Mut(doctor_id, dt) ==
  \E i \in 1..Len(appts) :
    /\ appts[i].doctor_id = doctor_id
    /\ appts[i].date_time = dt
    /\ appts[i].status = "Booked"

\* `existing` of patient_create_appointment: a row of the same doctor at
\* exactly that date_time whose status is not Cancelled.
ExistingForBook(doctor_id, dt) ==
  \E i \in 1..Len(appts) :
    /\ appts[i].doctor_id = doctor_id
    /\ appts[i].date_time = dt
    /\ appts[i].status # "Cancelled"

\* int(doctor_id)
IntOk(rd) == rd.kind = "ok"
IntOf(rd) == rd.value

\* POST /patient/appointments/new.  The form is refused when a field is
\* absent or the date and time do not parse; int(doctor_id) runs after that,
\* outside any try, so text it refuses ends the request in an unhandled
\* ValueError (the session is dropped, nothing is written).
Book(actor, rd, w) ==
  /\ UNCHANGED <<treatments, now, active, slots, inflight, accounts>>
  /\ IF Role(actor) # "patient"
     THEN /\ last' = Request("book", actor, None, None, None, None,
                             "AuthorizationError")
          /\ UNCHANGED appts
     ELSE IF rd.kind = "missing" \/ ~ParseOk(w)
     THEN /\ last' = Request("book", actor, None, None, None, None,
                             "ValidationError")
          /\ UNCHANGED appts
     ELSE IF ~IntOk(rd)
     THEN /\ last' = Request("book", actor, None, None, Some(Parsed(w)), None,
                             "Crash")
          /\ UNCHANGED appts
     ELSE IF ExistingForBook(IntOf(rd), Parsed(w))
     THEN /\ last' = Request("book", actor, None, Some(IntOf(rd)),
                             Some(Parsed(w)), None, "ConflictError")
          /\ UNCHANGED appts
     ELSE /\ Len(appts) < MaxAppts
          /\ appts' = Append(appts,
                        AppointmentRow(actor, IntOf(rd), Parsed(w), "Booked"))
          /\ last' = Request("book", actor, Some(Len(appts) + 1),
                             Some(IntOf(rd)), Some(Parsed(w)), None, "Success")

\* patient_cancel_appointment goes on only for a status of "Booked".
CancellableStatus_Mut(status) == status # "Cancelled"
CancellableStatus(status) == status = "Booked"

\* patient_cancel_appointment refuses a date_time strictly before the clock.
IsPast_Mut(dt, clock) == dt <= clock
IsPast_Never(dt, clock) == FALSE
IsPast(dt, clock) == dt < clock

\* A cancellation that deletes the row.
CancelWrite_Delete(tbl, id) ==
  SubSeq(tbl, 1, id - 1) \o SubSeq(tbl, id + 1, Len(tbl))

\* appt.status = "Cancelled"; db.session.commit(): the row stays.
CancelWrite(tbl, id) == [tbl EXCEPT ![id].status = "Cancelled"]

\* GET /patient/appointments/<id>/cancel
Cancel(actor, id) ==
  /\ UNCHANGED <<treatments, now, active, slots, inflight, accounts>>
  /\ IF Role(actor) # "patient"
     THEN /\ last' = Request("cancel", actor, Some(id), None, None, None,
                             "AuthorizationError")
          /\ UNCHANGED appts
     ELSE IF ~ApptOfPatient(id, actor)
     THEN /\ last' = Request("cancel", actor, Some(id), None, None, None,
                             "NotFoundError")
          /\ UNCHANGED appts
     ELSE IF ~CancellableStatus(appts[id].status)
     THEN /\ last' = Request("cancel", actor, Some(id), None, None, None,
                             "StateError")
          /\ UNCHANGED appts
     ELSE IF IsPast(appts[id].date_time, now)
     THEN /\ last' = Request("cancel", actor, Some(id), None, None, None,
                             "PastDateError")
          /\ UNCHANGED appts
     ELSE /\ appts' = CancelWrite(appts, id)
          /\ last' = Request("cancel", actor, Some(id), None, None, None,
                             "Success")

\* patient_reschedule_appointment goes on only for a status of "Booked".
ReschedulableStatus_Mut(status) == status # "Completed"
ReschedulableStatus(status) == status = "Booked"

\* A conflict check that does not leave out the appointment being moved.
ExistingForReschedule_Mut(id, dt) ==
  \E i \in 1..Len(appts) :
    /\ appts[i].doctor_id = appts[id].doctor_id
    /\ appts[i].date_time = dt
    /\ appts[i].status # "Cancelled"

\* `existing` of patient_reschedule_appointment: another row (id other than
\* the appointment's) of the appointment's doctor at exactly that date_time
\* whose status is not Cancelled.
ExistingForReschedule(id, dt) ==
  \E i \in 1..Len(appts) :
    /\ appts[i].doctor_id = appts[id].doctor_id
    /\ appts[i].date_time = dt
    /\ i # id
    /\ appts[i].status # "Cancelled"

\* POST /patient/appointments/<id>/reschedule
Reschedule(actor, id, w) ==
  /\ UNCHANGED <<treatments, now, active, slots, inflight, accounts>>
  /\ IF Role(actor) # "patient"
     THEN /\ last' = Request("reschedule", actor, Some(id), None, None, None,
                             "AuthorizationError")
          /\ UNCHANGED appts
     ELSE IF ~ApptOfPatient(id, actor)
     THEN /\ last' = Request("reschedule", actor, Some(id), None, None, None,
                             "NotFoundError")
          /\ UNCHANGED appts
     ELSE IF ~ReschedulableStatus(appts[id].status)
     THEN /\ last' = Request("reschedule", actor, Some(id), None, None, None,
                             "StateError")
          /\ UNCHANGED appts
     ELSE IF ~ParseOk(w)
     THEN /\ last' = Request("reschedule", actor, Some(id), None, None, None,
                             "ValidationError")
          /\ UNCHANGED appts
     ELSE IF ExistingForReschedule(id, Parsed(w))
     THEN /\ last' = Request("reschedule", actor, Some(id), None,
                             Some(Parsed(w)), None, "ConflictError")
          /\ UNCHANGED appts
     ELSE /\ appts' = [appts EXCEPT ![id].date_time = Parsed(w)]
          /\ last' = Request("reschedule", actor, Some(id), None,
                             Some(Parsed(w)), None, "Success")

\* A complete that leaves the status as it was.
CompletedStatus_Mut(old) == old

\* The status doctor_complete_appointment writes: "Completed", whatever the
\* status was (the handler reads no status).
CompletedStatus(old) == "Completed"

\* An upsert that adds a row on every call.
UpsertTreatment_Mut(id, text) == Append(treatments, TreatmentRow(id, text))

\* The Treatment table after the upsert of doctor_complete_appointment.
\* appt.treatment is the backref of the many-to-one Treatment.appointment,
\* so it is the collection of the appointment's rows.  When it is non-empty
\* the three assignments set attributes of that collection object, which is
\* no mapped row: nothing of them reaches the commit.  When it is empty a
\* row is added.
UpsertTreatment(id, text) ==
  IF TreatmentsOf(id) # {}
  THEN treatments
  ELSE Append(treatments, TreatmentRow(id, text))

\* POST /doctor/appointments/<id>/complete
Complete(actor, id, text) ==
  /\ UNCHANGED <<now, active, slots, inflight, accounts>>
  /\ IF Role(actor) # "doctor"
     THEN /\ last' = Request("complete", actor, Some(id), None, None, None,
                             "AuthorizationError")
          /\ UNCHANGED <<appts, treatments>>
     ELSE IF ~ApptOfDoctor(id, actor)
     THEN /\ last' = Request("complete", actor, Some(id), None, None, None,
                             "NotFoundError")
          /\ UNCHANGED <<appts, treatments>>
     ELSE /\ appts' = [appts EXCEPT ![id].status = CompletedStatus(@)]
          /\ treatments' = UpsertTreatment(id, text)
          /\ last' = Request("complete", actor, Some(id), None, None, text,
                             "Success")

\* The passing of time between requests.
Tick ==
  /\ now < MaxTime
  /\ now' = now + 1
  /\ UNCHANGED <<appts, treatments, last, active, slots, inflight, accounts>>

Next ==
  \/ \E actor \in Users, rd \in RawDoctor(Doctors), w \in RawWhen :
       Book(actor, rd, w)
  \/ \E actor \in Users, id \in ApptIds : Cancel(actor, id)
  \/ \E actor \in Users, id \in ApptIds, w \in RawWhen : Reschedule(actor, id, w)
  \/ \E actor \in Users, id \in ApptIds, text \in TextInputs :
       Complete(actor, id, text)
  \/ Tick

Spec == Staffed /\ [][Next]_vars

\* ------------------------------------------------- doctors' active flag
\* GET /admin/doctors/<doctor_id>/toggle_active
ToggleDoctorActive(actor, doctor_id) ==
  /\ UNCHANGED <<appts, treatments, now, slots, inflight, accounts>>
  /\ IF Role(actor) # "admin"
     THEN /\ last' = Request("toggle_doctor", actor, None, Some(doctor_id),
                             None, None, "AuthorizationError")
          /\ UNCHANGED active
     ELSE IF Role(doctor_id) # "doctor"
     THEN /\ last' = Request("toggle_doctor", actor, None, Some(doctor_id),
                             None, None, "NotFoundError")
          /\ UNCHANGED active
     ELSE /\ active' = [active EXCEPT ![doctor_id] = ~@]
          /\ last' = Request("toggle_doctor", actor, None, Some(doctor_id),
                             None, None, "Success")

\* Bookings that may name any user's id as the doctor, and the admin's
\* activation and deactivation of doctors.
NextUsers ==
  \/ \E actor \in Users, rd \in RawDoctor(Users), w \in RawWhen :
       Book(actor, rd, w)
  \/ \E actor \in Users, d \in Users : ToggleDoctorActive(actor, d)

SpecUsers == Staffed /\ [][NextUsers]_vars

\* ---------------------------------------------------------- availability
\* Calendar dates and times of day (minutes of "%H:%M").
Dates == 0..MaxDate
Clocks == 0..MaxClock

\* The day and the hour of a timestamp, the day having MaxClock + 1 hours.
DateOf(t) == t \div (MaxClock + 1)
ClockOf(t) == t % (MaxClock + 1)

\* A field of the availability form: absent, text strptime refuses, or the
\* text of a value.
RawField(values) ==
  {[kind |-> "ok", value |-> v] : v \in values}
    \cup {[kind |-> "missing", value |-> 0], [kind |-> "malformed", value |-> 0]}

\* The availability forms: every form whose three fields parse, and the
\* forms with one field absent or refused beside two fields that parse.
SlotForms ==
  LET Bad == {[kind |-> "missing", value |-> 0],
              [kind |-> "malformed", value |-> 0]}
      Form(d, a, b) == [date |-> d, start_time |-> a, end_time |-> b]
      Good(v) == [kind |-> "ok", value |-> v]
  IN {Form(Good(d), Good(a), Good(b)) : d \in Dates, a \in Clocks, b \in Clocks}
       \cup {Form(x, Good(0), Good(MaxClock)) : x \in Bad}
       \cup {Form(Good(0), x, Good(MaxClock)) : x \in Bad}
       \cup {Form(Good(0), Good(0), x) : x \in Bad}

\* class DoctorAvailability
SlotRow(id, doctor_id, d, a, b) ==
  [id |-> id, doctor_id |-> doctor_id, date |-> d, start_time |-> a,
   end_time |-> b]

\* The id the store gives a new DoctorAvailability row: one more than the
\* largest id in the table (INTEGER PRIMARY KEY of SQLite).
NewSlotId ==
  IF slots = {} THEN 1
  ELSE (CHOOSE m \in {r.id : r \in slots} : \A r \in slots : r.id <= m) + 1

\* `if not date_str or not start_str or not end_str`
FormComplete(f) ==
  f.date.kind # "missing" /\ f.start_time.kind # "missing"
    /\ f.end_time.kind # "missing"

\* The three strptime calls of doctor_availability raise no ValueError.
FormParses(f) ==
  f.date.kind = "ok" /\ f.start_time.kind = "ok" /\ f.end_time.kind = "ok"

\* `if end <= start`
EmptyRange_Mut(a, b) == b < a
EmptyRange(a, b) == b <= a

\* An overlap test that sees only the slots that start inside the new one.
Overlap_Lax(doctor_id, d, a, b) ==
  \E r \in slots :
    /\ r.doctor_id = doctor_id
    /\ r.date = d
    /\ r.start_time >= a
    /\ r.start_time < b

\* An overlap test that also counts a slot that only touches the new one.
Overlap_Mut(doctor_id, d, a, b) ==
  \E r \in slots :
    /\ r.doctor_id = doctor_id
    /\ r.date = d
    /\ r.start_time <= b
    /\ r.end_time >= a

\* `overlap` of doctor_availability: a slot of the same doctor on the same
\* date with start_time < end and end_time > start.
Overlap(doctor_id, d, a, b) ==
  \E r \in slots :
    /\ r.doctor_id = doctor_id
    /\ r.date = d
    /\ r.start_time < b
    /\ r.end_time > a

\* POST /doctor/availability
AddSlot(actor, f) ==
  /\ UNCHANGED <<appts, treatments, now, active, inflight, accounts>>
  /\ IF Role(actor) # "doctor"
     THEN /\ last' = Request("add_slot", actor, None, None, None, None,
                             "AuthorizationError")
          /\ UNCHANGED slots
     ELSE IF ~FormComplete(f) \/ ~FormParses(f)
     THEN /\ last' = Request("add_slot", actor, None, None, None, None,
                             "ValidationError")
          /\ UNCHANGED slots
     ELSE LET d == f.date.value
              a == f.start_time.value
              b == f.end_time.value
          IN IF EmptyRange(a, b)
             THEN /\ last' = Request("add_slot", actor, None, None,
                                     Some(<<d, a, b>>), None, "ValidationError")
                  /\ UNCHANGED slots
             ELSE IF Overlap(actor, d, a, b)
             THEN /\ last' = Request("add_slot", actor, None, None,
                                     Some(<<d, a, b>>), None, "OverlapError")
                  /\ UNCHANGED slots
             ELSE /\ NewSlotId <= MaxSlotId
                  /\ slots' = slots \cup {SlotRow(NewSlotId, actor, d, a, b)}
                  /\ last' = Request("add_slot", actor, Some(NewSlotId), None,
                                     Some(<<d, a, b>>), None, "Success")

\* Slot lookup that does not look at the owner.
SlotOfDoctor_Mut(id, actor) == {r \in slots : r.id = id}

\* DoctorAvailability.query.filter_by(id=slot_id, doctor_id=current_user.id)
SlotOfDoctor(id, actor) == {r \in slots : r.id = id /\ r.doctor_id = actor}

\* GET /doctor/availability/<slot_id>/delete
RemoveSlot(actor, id) ==
  /\ UNCHANGED <<appts, treatments, now, active, inflight, accounts>>
  /\ IF Role(actor) # "doctor"
     THEN /\ last' = Request("remove_slot", actor, Some(id), None, None, None,
                             "AuthorizationError")
          /\ UNCHANGED slots
     ELSE IF SlotOfDoctor(id, actor) = {}
     THEN /\ last' = Request("remove_slot", actor, Some(id), None, None, None,
                             "NotFoundError")
          /\ UNCHANGED slots
     ELSE LET slot == CHOOSE r \in SlotOfDoctor(id, actor) : TRUE
          IN /\ slots' = slots \ {slot}
             /\ last' = Request("remove_slot", actor, Some(id), None,
                                Some(<<slot.date, slot.start_time,
                                       slot.end_time>>), None, "Success")

SlotIds == 1..MaxSlotId

NextAvail ==
  \/ \E actor \in Users, f \in SlotForms : AddSlot(actor, f)
  \/ \E actor \in Users, id \in SlotIds : RemoveSlot(actor, id)

SpecAvail == Staffed /\ [][NextAvail]_vars

\* ------------------------------------------------------ concurrent bookings

\* A unique constraint on (doctor_id, date_time): the insert is dropped when
\* a row that is not Cancelled holds the pair.
Inserted_Unique(tbl, r) ==
  IF \E i \in 1..Len(tbl) : /\ tbl[i].doctor_id = r.doctor_id
                            /\ tbl[i].date_time = r.date_time
                            /\ tbl[i].status # "Cancelled"
  THEN tbl
  ELSE Append(tbl, r)

\* db.session.add(appt); db.session.commit(): the table has no constraint
\* over (doctor_id, date_time), the row goes in as it is.
Inserted(tbl, r) == Append(tbl, r)

\* patient_create_appointment up to and including the `existing` query, run
\* by one worker: a refused request ends here, an accepted one holds its new
\* row until the worker commits.
BookCheck(wk, actor, rd, w) ==
  /\ inflight[wk] = None
  /\ UNCHANGED <<appts, treatments, now, active, slots, accounts>>
  /\ IF Role(actor) # "patient"
     THEN /\ last' = Request("book", actor, None, None, None, None,
                             "AuthorizationError")
          /\ UNCHANGED inflight
     ELSE IF rd.kind = "missing" \/ ~ParseOk(w)
     THEN /\ last' = Request("book", actor, None, None, None, None,
                             "ValidationError")
          /\ UNCHANGED inflight
     ELSE IF ~IntOk(rd)
     THEN /\ last' = Request("book", actor, None, None, Some(Parsed(w)), None,
                             "Crash")
          /\ UNCHANGED inflight
     ELSE IF ExistingForBook(IntOf(rd), Parsed(w))
     THEN /\ last' = Request("book", actor, None, Some(IntOf(rd)),
                             Some(Parsed(w)), None, "ConflictError")
          /\ UNCHANGED inflight
     ELSE /\ inflight' =
               [inflight EXCEPT ![wk] =
                  Some(AppointmentRow(actor, IntOf(rd), Parsed(w), "Booked"))]
          /\ UNCHANGED last

\* The rest of patient_create_appointment, run by the same worker: the row
\* is added and committed.
BookCommit(wk) ==
  /\ inflight[wk] # None
  /\ Len(appts) < MaxAppts
  /\ LET r == inflight[wk][1]
     IN /\ appts' = Inserted(appts, r)
        /\ last' = Request("book", r.patient_id, Some(Len(appts) + 1),
                           Some(r.doctor_id), Some(r.date_time), None,
                           "Success")
  /\ inflight' = [inflight EXCEPT ![wk] = None]
  /\ UNCHANGED <<treatments, now, active, slots, accounts>>

NextRace ==
  \/ \E wk \in Workers, actor \in Users, rd \in RawDoctor(Doctors),
        w \in RawWhen : BookCheck(wk, actor, rd, w)
  \/ \E wk \in Workers : BookCommit(wk)

SpecRace == Staffed /\ [][NextRace]_vars

\* -------------------------------------------- bookings beside availability

\* The forms whose fields all parse and that lie on the day and in the hours
\* of the timestamps patients book.
DayForms ==
  {f \in SlotForms : /\ FormParses(f)
                     /\ f.date.value = 0
                     /\ f.start_time.value <= MaxTime
                     /\ f.end_time.value <= MaxTime + 1}

\* Patients book and move appointments while doctors declare and withdraw
\* availability.
NextDecoupled ==
  \/ \E actor \in Patients, rd \in {x \in RawDoctor(Doctors) : IntOk(x)},
        w \in {x \in RawWhen : ParseOk(x)} : Book(actor, rd, w)
  \/ \E actor \in Patients, id \in ApptIds,
        w \in {x \in RawWhen : ParseOk(x)} : Reschedule(actor, id, w)
  \/ \E actor \in Doctors, f \in DayForms : AddSlot(actor, f)
  \/ \E actor \in Users, id \in SlotIds : RemoveSlot(actor, id)

SpecDecoupled == Staffed /\ [][NextDecoupled]_vars

\* ------------------------------------- cancel and complete, concurrently

\* What a worker holds between loading an appointment and committing: the
\* request and the status the session loaded.
Pending(op, actor, id, text) ==
  [op |-> op, actor |-> actor, id |-> id, text |-> text,
   loaded |-> appts[id].status]

Holds(wk, op) ==
  /\ inflight[wk] # None
  /\ "op" \in DOMAIN inflight[wk][1]
  /\ inflight[wk][1].op = op

\* The UPDATE of the commit: the session sends the status it was given when
\* it differs from the one it loaded, to the row of that id, whatever the
\* row's status has become.
StatusWrite(tbl, id, loaded, status) ==
  IF loaded = status THEN tbl ELSE [tbl EXCEPT ![id].status = status]

\* patient_cancel_appointment up to its last check, run by one worker.
CancelCheck(wk, actor, id) ==
  /\ inflight[wk] = None
  /\ UNCHANGED <<appts, treatments, now, active, slots, accounts>>
  /\ IF Role(actor) # "patient"
     THEN /\ last' = Request("cancel", actor, Some(id), None, None, None,
                             "AuthorizationError")
          /\ UNCHANGED inflight
     ELSE IF ~ApptOfPatient(id, actor)
     THEN /\ last' = Request("cancel", actor, Some(id), None, None, None,
                             "NotFoundError")
          /\ UNCHANGED inflight
     ELSE IF ~CancellableStatus(appts[id].status)
     THEN /\ last' = Request("cancel", actor, Some(id), None, None, None,
                             "StateError")
          /\ UNCHANGED inflight
     ELSE IF IsPast(appts[id].date_time, now)
     THEN /\ last' = Request("cancel", actor, Some(id), None, None, None,
                             "PastDateError")
          /\ UNCHANGED inflight
     ELSE /\ inflight' = [inflight EXCEPT ![wk] =
                            Some(Pending("cancel", actor, id, None))]
          /\ UNCHANGED last

\* appt.status = "Cancelled"; db.session.commit(), by the same worker.
CancelCommit(wk) ==
  /\ Holds(wk, "cancel")
  /\ LET r == inflight[wk][1]
     IN /\ appts' = StatusWrite(appts, r.id, r.loaded, "Cancelled")
        /\ last' = Request("cancel", r.actor, Some(r.id), None, None, None,
                           "Success")
  /\ inflight' = [inflight EXCEPT ![wk] = None]
  /\ UNCHANGED <<treatments, now, active, slots, accounts>>

\* doctor_complete_appointment up to the loading of the appointment, run by
\* one worker: the role check and the lookup by id and doctor.
CompleteRead(wk, actor, id, text) ==
  /\ inflight[wk] = None
  /\ UNCHANGED <<appts, treatments, now, active, slots, accounts>>
  /\ IF Role(actor) # "doctor"
     THEN /\ last' = Request("complete", actor, Some(id), None, None, None,
                             "AuthorizationError")
          /\ UNCHANGED inflight
     ELSE IF ~ApptOfDoctor(id, actor)
     THEN /\ last' = Request("complete", actor, Some(id), None, None, None,
                             "NotFoundError")
          /\ UNCHANGED inflight
     ELSE /\ inflight' = [inflight EXCEPT ![wk] =
                            Some(Pending("complete", actor, id, text))]
          /\ UNCHANGED last

\* The rest of doctor_complete_appointment, by the same worker.  The
\* assignment of the status is flushed by the load of appt.treatment, and
\* from that UPDATE to the commit the worker holds the write lock of the
\* database: the reading of appt.treatment, the insert it decides and the
\* commit are one step, on the Treatment table as it is in that step.
CompleteCommit(wk) ==
  /\ Holds(wk, "complete")
  /\ LET r == inflight[wk][1]
     IN /\ appts' = StatusWrite(appts, r.id, r.loaded,
                                CompletedStatus(r.loaded))
        /\ treatments' = UpsertTreatment(r.id, r.text)
        /\ last' = Request("complete", r.actor, Some(r.id), None, None,
                           r.text, "Success")
  /\ inflight' = [inflight EXCEPT ![wk] = None]
  /\ UNCHANGED <<now, active, slots, accounts>>

\* A patient books with a doctor while no request is under way; then the
\* patient cancels and the doctor completes, on two workers.
NextStatusRace ==
  LET P == AdminId + NumDoctors + 1
      D == AdminId + 1
  IN \/ \E t \in Times :
          /\ \A wk \in Workers : inflight[wk] = None
          /\ Book(P, [kind |-> "ok", value |-> D],
                  [kind |-> "ok", value |-> t])
     \/ \E wk \in Workers, actor \in {P, D}, id \in ApptIds :
          CancelCheck(wk, actor, id)
     \/ \E wk \in Workers : CancelCommit(wk)
     \/ \E wk \in Workers, actor \in {P, D}, id \in ApptIds,
           text \in TextInputs : CompleteRead(wk, actor, id, text)
     \/ \E wk \in Workers : CompleteCommit(wk)

SpecStatusRace == Staffed /\ [][NextStatusRace]_vars

\* ------------------------------------------------- the upcoming slots

\* timedelta(days=7)
WindowDays == 7

\* A window that stops a day early.
InWindow_Mut(d, today) == d >= today /\ d < today + WindowDays

\* DoctorAvailability.date >= today, <= today + timedelta(days=7)
InWindow(d, today) == d >= today /\ d <= today + WindowDays

\* order_by(DoctorAvailability.date.asc(), DoctorAvailability.start_time.asc());
\* rows equal in both come in the order of their ids.
SlotBefore(r, q) ==
  \/ r.date < q.date
  \/ r.date = q.date /\ r.start_time < q.start_time
  \/ r.date = q.date /\ r.start_time = q.start_time /\ r.id <= q.id

RECURSIVE Ordered(_)
Ordered(S) ==
  IF S = {}
  THEN <<>>
  ELSE LET first == CHOOSE r \in S : \A q \in S : SlotBefore(r, q)
       IN <<first>> \o Ordered(S \ {first})

\* `upcoming` of doctor_availability
Upcoming(doctor_id, today) ==
  Ordered({r \in slots : r.doctor_id = doctor_id /\ InWindow(r.date, today)})

\* GET /doctor/availability
ListUpcoming(actor) ==
  /\ UNCHANGED <<appts, treatments, now, active, slots, inflight, accounts>>
  /\ IF Role(actor) # "doctor"
     THEN last' = Request("list_slots", actor, None, None, None, None,
                          "AuthorizationError")
     ELSE last' = Request("list_slots", actor, None, None, None,
                          Some(Upcoming(actor, DateOf(now))), "Success")

\* Availability tables of up to three rows, on the days around the two ends
\* of the window of day 1, in the first two hours of the day.
ListDates == {0, 1, WindowDays + 1, WindowDays + 2}
ListRows ==
  {[doctor_id |-> dr, date |-> d, start_time |-> a, end_time |-> a + 1] :
     dr \in Doctors, d \in ListDates, a \in 0..1}
SlotTables ==
  LET Ids == 1..(MaxSlotId + 1)
      Picks == [Ids -> ListRows \cup {None}]
      Table(f) == {SlotRow(i, f[i].doctor_id, f[i].date, f[i].start_time,
                           f[i].end_time) : i \in {j \in Ids : f[j] # None}}
  IN {Table(f) : f \in {g \in Picks :
                          \A i, j \in Ids :
                            (i # j /\ g[i] # None) => g[i] # g[j]}}

InitUpcoming ==
  /\ appts = <<>>
  /\ treatments = <<>>
  /\ now \in {0, MaxClock + 1}
  /\ last = Request("init", 0, None, None, None, None, "Success")
  /\ active = [u \in UserIds |-> TRUE]
  /\ slots \in SlotTables
  /\ inflight = [wk \in Workers |-> None]
  /\ accounts = SeedAccounts

NextUpcoming == \E actor \in Users : ListUpcoming(actor)

SpecUpcoming == InitUpcoming /\ [][NextUpcoming]_vars

\* ---------------------------------------------------------- the User table

\* The email field of a form after .strip(): blank, or an address.
NoEmail == 0
Emails == 1..(MaxUsers + 1)

\* The age field of a form: absent, the text of an integer, or other text.
Ages == {"absent", "int", "text"}

\* User.query.filter_by(email=email).first()
EmailTaken(email) == \E u \in 1..Len(accounts) : accounts[u].email = email

\* A lookup that does not leave out the user being edited.
EmailOfOther_Mut(id, email) == FALSE

\* The users other than id who hold the email: the UPDATE the session
\* flushes ahead of the `existing` query of the edit handlers meets the
\* unique constraint of User.email when there is one.
EmailOfOther(id, email) ==
  \E u \in 1..Len(accounts) : u # id /\ accounts[u].email = email

\* What a request on the User table leaves in `last`: the user it named and
\* the email of its form.
AccountRequest(op, actor, target, email, outcome) ==
  Request(op, actor, target, None, None, email, outcome)

\* The role register gives the account it creates.
RegisteredRole_Mut == "doctor"
RegisteredRole == "patient"

\* POST /register, open to anyone (actor 0: no session).
Register(name_ok, email, password_ok, age) ==
  /\ UNCHANGED <<appts, treatments, now, active, slots, inflight>>
  /\ IF ~name_ok \/ email = NoEmail \/ ~password_ok
     THEN /\ last' = AccountRequest("register", 0, None, None,
                                    "ValidationError")
          /\ UNCHANGED accounts
     ELSE IF EmailTaken(email)
     THEN /\ last' = AccountRequest("register", 0, None, Some(email),
                                    "DuplicateEmail")
          /\ UNCHANGED accounts
     ELSE IF age = "text"
     THEN /\ last' = AccountRequest("register", 0, None, Some(email),
                                    "ValidationError")
          /\ UNCHANGED accounts
     ELSE /\ Len(accounts) < MaxUsers
          /\ accounts' = Append(accounts, UserRow(email, RegisteredRole))
          /\ last' = AccountRequest("register", 0, Some(Len(accounts) + 1),
                                    Some(email), "Success")

\* POST /admin/doctors/new
CreateDoctor(actor, name_ok, email, password_ok) ==
  /\ UNCHANGED <<appts, treatments, now, active, slots, inflight>>
  /\ IF Role(actor) # "admin"
     THEN /\ last' = AccountRequest("create_doctor", actor, None, None,
                                    "AuthorizationError")
          /\ UNCHANGED accounts
     ELSE IF ~name_ok \/ email = NoEmail \/ ~password_ok
     THEN /\ last' = AccountRequest("create_doctor", actor, None, None,
                                    "ValidationError")
          /\ UNCHANGED accounts
     ELSE IF EmailTaken(email)
     THEN /\ last' = AccountRequest("create_doctor", actor, None,
                                    Some(email), "DuplicateEmail")
          /\ UNCHANGED accounts
     ELSE /\ Len(accounts) < MaxUsers
          /\ accounts' = Append(accounts, UserRow(email, "doctor"))
          /\ last' = AccountRequest("create_doctor", actor,
                                    Some(Len(accounts) + 1), Some(email),
                                    "Success")

\* POST /admin/patients/<id>/edit and POST /admin/doctors/<id>/edit, which
\* differ in the role of the user they look up and in the age field only
\* the patient form has.  The handler assigns the form to the loaded user
\* before it validates; only a commit makes the assignment last.  The
\* `existing` query flushes the assignment first, so an email another user
\* holds ends the request in an unhandled IntegrityError.
EditUser(op, role, actor, id, name_ok, email, age) ==
  /\ UNCHANGED <<appts, treatments, now, active, slots, inflight>>
  /\ IF Role(actor) # "admin"
     THEN /\ last' = AccountRequest(op, actor, Some(id), None,
                                    "AuthorizationError")
          /\ UNCHANGED accounts
     ELSE IF Role(id) # role
     THEN /\ last' = AccountRequest(op, actor, Some(id), None,
                                    "NotFoundError")
          /\ UNCHANGED accounts
     ELSE IF ~name_ok \/ email = NoEmail
     THEN /\ last' = AccountRequest(op, actor, Some(id), None,
                                    "ValidationError")
          /\ UNCHANGED accounts
     ELSE IF EmailOfOther(id, email)
     THEN /\ last' = AccountRequest(op, actor, Some(id), Some(email),
                                    "Crash")
          /\ UNCHANGED accounts
     ELSE IF age = "text"
     THEN /\ last' = AccountRequest(op, actor, Some(id), Some(email),
                                    "ValidationError")
          /\ UNCHANGED accounts
     ELSE /\ accounts' = [accounts EXCEPT ![id].email = email]
          /\ last' = AccountRequest(op, actor, Some(id), Some(email),
                                    "Success")

EditPatient(actor, id, name_ok, email, age) ==
  EditUser("edit_patient", "patient", actor, id, name_ok, email, age)

EditDoctor(actor, id, name_ok, email) ==
  EditUser("edit_doctor", "doctor", actor, id, name_ok, email, "absent")

\* POST /patient/profile: name, age, gender, phone and address of the
\* patient's own row; neither email nor role is on the form.
PatientProfile(actor, name_ok, age) ==
  /\ UNCHANGED <<appts, treatments, now, active, slots, inflight, accounts>>
  /\ last' = AccountRequest("profile", actor, None, None,
             IF Role(actor) # "patient" THEN "AuthorizationError"
             ELSE IF ~name_ok \/ age = "text" THEN "ValidationError"
             ELSE "Success")

\* GET /admin/patients/<patient_id>/toggle_active
TogglePatientActive(actor, patient_id) ==
  /\ UNCHANGED <<appts, treatments, now, slots, inflight, accounts>>
  /\ IF Role(actor) # "admin"
     THEN /\ last' = AccountRequest("toggle_patient", actor,
                                    Some(patient_id), None,
                                    "AuthorizationError")
          /\ UNCHANGED active
     ELSE IF Role(patient_id) # "patient"
     THEN /\ last' = AccountRequest("toggle_patient", actor,
                                    Some(patient_id), None, "NotFoundError")
          /\ UNCHANGED active
     ELSE /\ active' = [active EXCEPT ![patient_id] = ~@]
          /\ last' = AccountRequest("toggle_patient", actor,
                                    Some(patient_id), None, "Success")

\* POST /login: the user of that email, if the password checks and the user
\* is active.
Login(email, password_ok) ==
  /\ UNCHANGED <<appts, treatments, now, active, slots, inflight, accounts>>
  /\ LET found == {u \in 1..Len(accounts) : accounts[u].email = email}
     IN IF \E u \in found : password_ok /\ active[u]
        THEN last' = AccountRequest("login", CHOOSE u \in found : TRUE, None,
                                    Some(email), "Success")
        ELSE last' = AccountRequest("login", 0, None, Some(email),
                                    "InvalidCredentials")

\* The users the admin edits and toggles: the first two accounts made after
\* the admin's, each a doctor or a patient as the requests made them.
EditIds == {AdminId + 1, AdminId + 2}
\* The emails of the forms: none, the admin's, and three nobody holds at
\* first.
FormEmails == {NoEmail} \cup (AdminId..(AdminId + 3))
\* Who is logged in: the admin, or the first account made after the admin's.
Actors == {AdminId, AdminId + 1}

NextAccounts ==
  \/ \E name_ok \in BOOLEAN, email \in FormEmails, password_ok \in BOOLEAN,
        age \in Ages : Register(name_ok, email, password_ok, age)
  \/ \E actor \in Actors, name_ok \in BOOLEAN, email \in FormEmails,
        password_ok \in BOOLEAN :
       CreateDoctor(actor, name_ok, email, password_ok)
  \/ \E actor \in Actors, id \in EditIds, name_ok \in BOOLEAN,
        email \in FormEmails, age \in Ages :
       EditPatient(actor, id, name_ok, email, age)
  \/ \E actor \in Actors, id \in EditIds, name_ok \in BOOLEAN,
        email \in FormEmails : EditDoctor(actor, id, name_ok, email)
  \/ \E actor \in Actors, name_ok \in BOOLEAN, age \in Ages :
       PatientProfile(actor, name_ok, age)
  \/ \E actor \in Actors, id \in EditIds : TogglePatientActive(actor, id)
  \/ \E actor \in Actors, id \in EditIds : ToggleDoctorActive(actor, id)
  \/ \E email \in FormEmails, password_ok \in BOOLEAN :
       Login(email, password_ok)

SpecAccounts == Init /\ [][NextAccounts]_vars

\* ------------------------------------------------- every table together

\* The patients, one doctor and the admin use every operation that writes a
\* table, with forms that pass validation.
NextStore ==
  LET P == AdminId + NumDoctors + 1
      D == AdminId + 1
      Ok(v) == [kind |-> "ok", value |-> v]
      WholeDay == [date |-> Ok(0), start_time |-> Ok(0),
                   end_time |-> Ok(MaxClock)]
  IN \/ \E actor \in Patients, t \in Times : Book(actor, Ok(D), Ok(t))
     \/ \E id \in ApptIds : Cancel(P, id)
     \/ \E id \in ApptIds, t \in Times : Reschedule(P, id, Ok(t))
     \/ \E id \in ApptIds, text \in TextInputs : Complete(D, id, text)
     \/ AddSlot(D, WholeDay)
     \/ \E actor \in Doctors, id \in SlotIds : RemoveSlot(actor, id)
     \/ Register(TRUE, MaxUsers, TRUE, "int")
     \/ EditPatient(AdminId, P, TRUE, MaxUsers + 1, "absent")
     \/ ToggleDoctorActive(AdminId, D)
     \/ TogglePatientActive(AdminId, P)

SpecStore == Staffed /\ [][NextStore]_vars

\* ------------------------------------------------------------------ claims
Rows == 1..Len(appts)
Active(i) == appts[i].status # "Cancelled"
TextOf(row) == <<row.diagnosis, row.prescription, row.notes>>
Target == last.target[1]

\* A step is a request `op` that got past the role check and the lookup of
\* its appointment: every request writes `last`, and a step that leaves
\* `last` as it was changes no table.
Handled(op) ==
  /\ last' # last
  /\ last'.op = op
  /\ last'.outcome \notin {"AuthorizationError", "NotFoundError"}

\* C1: for every doctor D and timestamp T at most one appointment with
\* doctor D, date_time T and a status other than Cancelled exists.
C1_OneActivePerSlot ==
  \A i, j \in Rows :
    (/\ i # j
     /\ appts[i].doctor_id = appts[j].doctor_id
     /\ appts[i].date_time = appts[j].date_time)
      => ~(Active(i) /\ Active(j))

\* C2: a well-formed book(P, D, T) fails with a conflict error and leaves
\* the appointments unchanged iff a Booked or Completed appointment of D at
\* exactly T exists; otherwise it adds exactly one appointment (P, D, T,
\* Booked) and changes no existing one.  Cancelled rows, other doctors and
\* other timestamps never block.
C2_BookConflictIff ==
  [][(Handled("book") /\ last'.outcome \notin {"ValidationError", "Crash"}) =>
       LET p == last'.actor
           d == last'.doctor[1]
           t == last'.dt[1]
       IN IF \E i \in Rows : /\ appts[i].doctor_id = d
                             /\ appts[i].date_time = t
                             /\ appts[i].status \in {"Booked", "Completed"}
          THEN last'.outcome = "ConflictError" /\ appts' = appts
          ELSE /\ last'.outcome = "Success"
               /\ Len(appts') = Len(appts) + 1
               /\ \A i \in Rows : appts'[i] = appts[i]
               /\ appts'[Len(appts')] =
                    [patient_id |-> p, doctor_id |-> d, date_time |-> t,
                     status |-> "Booked"]]_vars

\* A booking was refused with a conflict error, the holder of its (doctor,
\* date_time) being a Completed appointment and no Booked one.
C2_Witness ==
  /\ last.op = "book"
  /\ last.outcome = "ConflictError"
  /\ \E i \in Rows : /\ appts[i].doctor_id = last.doctor[1]
                     /\ appts[i].date_time = last.dt[1]
                     /\ appts[i].status = "Completed"
  /\ \A i \in Rows : appts[i].status # "Booked"

\* C3: reschedule(A, T') by A's patient on a Booked A fails with a conflict
\* error, A.date_time unchanged, iff another appointment (id other than A)
\* of A's doctor at exactly T' with a status other than Cancelled exists; A
\* itself does not count, so rescheduling A to its own date_time succeeds.
C3_RescheduleConflictIff ==
  [][(/\ Handled("reschedule")
      /\ last'.outcome # "ValidationError"
      /\ appts[last'.target[1]].status = "Booked") =>
       LET id == last'.target[1]
           t == last'.dt[1]
       IN IF \E j \in Rows : /\ j # id
                             /\ appts[j].doctor_id = appts[id].doctor_id
                             /\ appts[j].date_time = t
                             /\ appts[j].status # "Cancelled"
          THEN /\ last'.outcome = "ConflictError"
               /\ appts'[id].date_time = appts[id].date_time
          ELSE /\ last'.outcome = "Success"
               /\ appts'[id].date_time = t]_vars

\* A reschedule of a Booked appointment was refused with a conflict error,
\* another appointment of its doctor holding the requested timestamp.
C3_Witness ==
  /\ last.op = "reschedule"
  /\ last.outcome = "ConflictError"
  /\ appts[Target].status = "Booked"
  /\ appts[Target].date_time # last.dt[1]
  /\ \E j \in Rows : /\ j # Target
                     /\ appts[j].doctor_id = appts[Target].doctor_id
                     /\ appts[j].date_time = last.dt[1]
                     /\ Active(j)

\* C4: once an appointment's status is Cancelled no later operation changes
\* that status; complete never moves a Cancelled appointment to Completed.
C4_CancelledIsTerminal ==
  [][\A i \in Rows :
       appts[i].status = "Cancelled" => appts'[i].status = "Cancelled"]_vars

\* C5: once an appointment's status is Completed no later operation changes
\* its status or its date_time: cancel and reschedule of it by its patient
\* fail with a state error and complete leaves it Completed.
C5_CompletedIsTerminal ==
  [][/\ \A i \in Rows :
          appts[i].status = "Completed" =>
            /\ appts'[i].status = "Completed"
            /\ appts'[i].date_time = appts[i].date_time
     /\ ((Handled("cancel") \/ Handled("reschedule"))
           /\ appts[last'.target[1]].status = "Completed") =>
          last'.outcome = "StateError"]_vars

\* The patient of a Completed appointment asked to cancel or reschedule it
\* and got a state error.
C5_Witness ==
  /\ last.op \in {"cancel", "reschedule"}
  /\ last.outcome = "StateError"
  /\ appts[Target].status = "Completed"

\* C6: cancel(A) by A's patient sets the status to Cancelled iff A is Booked
\* and A.date_time >= now; a status other than Booked gives a state error, a
\* Booked A with date_time < now a past-date error, both leaving A unchanged.
C6_CancelRule ==
  [][Handled("cancel") =>
       LET id == last'.target[1]
       IN IF appts[id].status = "Booked" /\ appts[id].date_time >= now
          THEN /\ last'.outcome = "Success"
               /\ appts'[id].status = "Cancelled"
               /\ \A j \in Rows : j # id => appts'[j] = appts[j]
          ELSE /\ appts' = appts
               /\ last'.outcome =
                    IF appts[id].status # "Booked" THEN "StateError"
                    ELSE "PastDateError"]_vars

\* The second of two cancels of an appointment whose date_time is the first
\* reading of the clock: the first cancel ran at date_time = now and
\* cancelled it, this one got a state error.
C6_Witness ==
  /\ last.op = "cancel"
  /\ last.outcome = "StateError"
  /\ appts[Target].status = "Cancelled"
  /\ appts[Target].date_time = 0
  /\ \A i \in Rows : appts[i].status # "Completed"

\* C7: reschedule(A, T') by A's patient fails with a state error and changes
\* nothing whenever A is not Booked, whatever T'; a successful reschedule
\* changes A.date_time to T' and nothing else of A or of any other row.
C7_RescheduleFrame ==
  [][Handled("reschedule") =>
       LET id == last'.target[1]
       IN /\ appts[id].status # "Booked" =>
               /\ last'.outcome = "StateError"
               /\ appts' = appts
               /\ treatments' = treatments
          /\ last'.outcome = "Success" =>
               /\ Len(appts') = Len(appts)
               /\ \A j \in Rows : j # id => appts'[j] = appts[j]
               /\ appts'[id].date_time = last'.dt[1]
               /\ appts'[id].status = "Booked"
               /\ appts'[id].status = appts[id].status
               /\ appts'[id].patient_id = appts[id].patient_id
               /\ appts'[id].doctor_id = appts[id].doctor_id
               /\ treatments' = treatments]_vars

\* A reschedule succeeded while the table held another appointment.
C7_Witness ==
  /\ last.op = "reschedule"
  /\ last.outcome = "Success"
  /\ appts[Target].date_time = last.dt[1]
  /\ appts[Target].status = "Booked"
  /\ Len(appts) > 1

\* C8: after a complete of an appointment by its doctor the appointment's
\* stored Treatment holds the diagnosis, prescription and notes of that call,
\* also when an earlier complete stored other text.
C8_LatestTextStored ==
  (last.op = "complete" /\ last.outcome = "Success") =>
    /\ TreatmentsOf(Target) # {}
    /\ \A k \in TreatmentsOf(Target) : TextOf(treatments[k]) = last.text

\* C9: each appointment has at most one Treatment row; complete adds a row
\* only when the appointment has none.
C9_AtMostOneTreatment ==
  /\ [](\A id \in Rows : Cardinality(TreatmentsOf(id)) <= 1)
  /\ [][Len(treatments') =
          IF Handled("complete") /\ TreatmentsOf(last'.target[1]) = {}
          THEN Len(treatments) + 1
          ELSE Len(treatments)]_vars

\* A complete succeeded on an appointment that already had its Treatment
\* row (the stored text is not that of the call), and the row is still the
\* only one.
C9_Witness ==
  /\ last.op = "complete"
  /\ last.outcome = "Success"
  /\ Cardinality(TreatmentsOf(Target)) = 1
  /\ \E k \in TreatmentsOf(Target) : TextOf(treatments[k]) # last.text

\* C10: every Treatment row belongs to an appointment whose status is
\* Completed, and every Completed appointment has a Treatment row.
C10_TreatmentIffCompleted ==
  /\ \A k \in 1..Len(treatments) :
       /\ treatments[k].appointment_id \in Rows
       /\ appts[treatments[k].appointment_id].status = "Completed"
  /\ \A i \in Rows : appts[i].status = "Completed" => TreatmentsOf(i) # {}

\* One appointment is Completed and has its Treatment, another is Booked
\* or Cancelled and has none.
C10_Witness ==
  /\ \E i \in Rows : appts[i].status = "Completed" /\ TreatmentsOf(i) # {}
  /\ \E i \in Rows : appts[i].status # "Completed" /\ TreatmentsOf(i) = {}

\* C11: book(P, D, T) creates an appointment only if D is an existing user
\* with role doctor whose active flag is true at the time of the request.
C11_BookOnlyActiveDoctor ==
  [][(Handled("book") /\ last'.outcome = "Success") =>
       LET d == last'.doctor[1]
       IN d \in Users /\ Role(d) = "doctor" /\ active[d]]_vars

\* Two rows of the availability table are in each other's way.
SlotsCollide(r1, r2) ==
  /\ r1.doctor_id = r2.doctor_id
  /\ r1.date = r2.date
  /\ r1.start_time < r2.end_time
  /\ r1.end_time > r2.start_time

\* The (date, start, end) the latest availability request parsed.
LastSlot == last.dt[1]

\* C12: no two distinct availability slots of the same doctor on the same
\* date overlap (s1.start < s2.end and s1.end > s2.start).
C12_NoOverlappingSlots ==
  \A r1, r2 \in slots : r1 # r2 => ~SlotsCollide(r1, r2)

\* A doctor holds two slots on one date, the second starting where the first
\* ends.
C12_Witness ==
  \E r1, r2 \in slots :
    /\ r1.doctor_id = r2.doctor_id
    /\ r1.date = r2.date
    /\ r1.end_time = r2.start_time

\* C13: addSlot with end <= start (end = start too) fails with a validation
\* error and stores nothing; every stored slot has end_time > start_time.
C13_EndAfterStart ==
  /\ [](\A r \in slots : r.end_time > r.start_time)
  /\ [][(/\ Handled("add_slot")
          /\ last'.dt # None
          /\ last'.dt[1][3] <= last'.dt[1][2]) =>
           (last'.outcome = "ValidationError" /\ slots' = slots)]_vars

\* A form with end = start was refused with a validation error while the
\* doctor held a slot.
C13_Witness ==
  /\ last.op = "add_slot"
  /\ last.outcome = "ValidationError"
  /\ last.dt # None
  /\ LastSlot[3] = LastSlot[2]
  /\ \E r \in slots : r.doctor_id = last.actor

\* C14: a well-formed addSlot(D, date, start, end) with end > start adds
\* exactly one slot iff no slot of D on that date has start < end and
\* end > start; a slot that only touches an existing one is accepted; slots
\* of other doctors or dates never cause rejection.
C14_AddSlotIffNoOverlap ==
  [][(/\ Handled("add_slot")
      /\ last'.dt # None
      /\ last'.dt[1][3] > last'.dt[1][2]) =>
       LET D == last'.actor
           d == last'.dt[1][1]
           a == last'.dt[1][2]
           b == last'.dt[1][3]
       IN IF \E r \in slots : /\ r.doctor_id = D
                               /\ r.date = d
                               /\ r.start_time < b
                               /\ r.end_time > a
          THEN last'.outcome = "OverlapError" /\ slots' = slots
          ELSE /\ last'.outcome = "Success"
               /\ slots \subseteq slots'
               /\ Cardinality(slots') = Cardinality(slots) + 1
               /\ \A r \in slots' \ slots :
                    /\ r.doctor_id = D
                    /\ <<r.date, r.start_time, r.end_time>> = <<d, a, b>>]_vars

\* A slot was accepted that starts exactly where a slot of the same doctor
\* on the same date ends.
C14_Witness ==
  /\ last.op = "add_slot"
  /\ last.outcome = "Success"
  /\ \E r \in slots : /\ r.doctor_id = last.actor
                       /\ r.date = LastSlot[1]
                       /\ r.end_time = LastSlot[2]
                       /\ r.start_time < r.end_time

\* C15: cancel or reschedule of appointment A by a patient other than
\* A.patient, and complete of A by a doctor other than A.doctor or by a user
\* who is no doctor, fail and leave every appointment and every Treatment
\* unchanged.
C15_OwnAppointmentsOnly ==
  [][(/\ last' # last
      /\ last'.op \in {"cancel", "reschedule", "complete"}
      /\ last'.target # None
      /\ last'.target[1] \in Rows
      /\ LET A == appts[last'.target[1]]
             u == last'.actor
         IN IF last'.op = "complete"
            THEN ~(Role(u) = "doctor" /\ A.doctor_id = u)
            ELSE A.patient_id # u) =>
       (/\ last'.outcome \in {"AuthorizationError", "NotFoundError"}
        /\ appts' = appts
        /\ treatments' = treatments)]_vars

\* A patient asked to cancel another patient's Booked appointment and was told
\* it does not exist.
C15_Witness ==
  /\ last.op = "cancel"
  /\ last.outcome = "NotFoundError"
  /\ Target \in Rows
  /\ Role(last.actor) = "patient"
  /\ appts[Target].patient_id # last.actor
  /\ appts[Target].status = "Booked"

\* C16: a booking is a conflict-check read followed by a separate insert and
\* commit with no lock or unique constraint: a request whose check saw no
\* conflict commits its Booked row whatever has been committed since, so two
\* concurrent bookings of one (doctor, date_time) can both commit.
C16_CommitAfterStaleCheck ==
  [][\A wk \in Workers :
       (inflight[wk] # None /\ inflight'[wk] = None) =>
         appts' = Append(appts, inflight[wk][1])]_vars

\* Two Booked appointments of one doctor at one date_time, the second
\* committed by a request that had read before the first was committed.
C16_Witness ==
  \E i, j \in Rows :
    /\ i < j
    /\ appts[i].doctor_id = appts[j].doctor_id
    /\ appts[i].date_time = appts[j].date_time
    /\ appts[i].status = "Booked"
    /\ appts[j].status = "Booked"
    /\ last.op = "book"
    /\ last.outcome = "Success"
    /\ Target = j

\* Some appointment of table tbl that is not Cancelled holds (D, T).
Held(tbl, D, T) ==
  \E i \in 1..Len(tbl) : /\ tbl[i].doctor_id = D
                          /\ tbl[i].date_time = T
                          /\ tbl[i].status # "Cancelled"

\* C17: a (doctor, timestamp) pair is released as soon as its holder leaves
\* it: a successful cancel, or a successful reschedule to T2 # T1, of the
\* Booked appointment at (D, T1) leaves (D, T1) free when no other
\* non-Cancelled appointment occupies it, and a reschedule leaves (D, T2)
\* held; the book that follows succeeds for any patient at a free pair and
\* fails with a conflict error at a held one.
C17_SlotReleased ==
  /\ [][(/\ (Handled("cancel") \/ Handled("reschedule"))
          /\ last'.outcome = "Success") =>
           LET id == last'.target[1]
               D  == appts[id].doctor_id
               T1 == appts[id].date_time
           IN /\ (/\ (last'.op = "reschedule" => last'.dt[1] # T1)
                  /\ ~\E j \in Rows \ {id} : /\ appts[j].doctor_id = D
                                              /\ appts[j].date_time = T1
                                              /\ appts[j].status # "Cancelled")
                   => ~Held(appts', D, T1)
              /\ (last'.op = "reschedule" => Held(appts', D, last'.dt[1]))]_vars
  /\ [][(/\ last.op \in {"cancel", "reschedule"}
          /\ last.outcome = "Success"
          /\ Handled("book")
          /\ last'.outcome \notin {"ValidationError", "Crash"}) =>
           IF Held(appts, last'.doctor[1], last'.dt[1])
           THEN last'.outcome = "ConflictError" /\ appts' = appts
           ELSE /\ last'.outcome = "Success"
                /\ Len(appts') = Len(appts) + 1
                /\ appts'[Len(appts')].status = "Booked"]_vars

\* A patient holds a Booked appointment at the (doctor, timestamp) of another
\* patient's Cancelled appointment, booked after the cancellation.
C17_Witness ==
  /\ last.op = "book"
  /\ last.outcome = "Success"
  /\ appts[Target].status = "Booked"
  /\ \E i \in Rows : /\ i < Target
                      /\ appts[i].doctor_id = appts[Target].doctor_id
                      /\ appts[i].date_time = appts[Target].date_time
                      /\ appts[i].patient_id # appts[Target].patient_id
                      /\ appts[i].status = "Cancelled"

\* Timestamp t lies inside the interval (date, start, end).
Inside(t, iv) ==
  /\ DateOf(t) = iv[1]
  /\ iv[2] <= ClockOf(t)
  /\ ClockOf(t) < iv[3]

\* C18: removeSlot(D, slotId) fails with not-found and deletes nothing unless
\* a slot with that id belonging to doctor D exists; on success it deletes
\* exactly that slot and leaves every other slot and every appointment
\* unchanged, appointments inside the removed slot included.
C18_RemoveSlotFrame ==
  [][(last' # last /\ last'.op = "remove_slot") =>
       LET D == last'.actor
           id == last'.target[1]
           own == {r \in slots : r.id = id /\ r.doctor_id = D}
       IN /\ appts' = appts
          /\ treatments' = treatments
          /\ IF Role(D) # "doctor"
             THEN last'.outcome = "AuthorizationError" /\ slots' = slots
             ELSE IF own = {}
             THEN last'.outcome = "NotFoundError" /\ slots' = slots
             ELSE /\ last'.outcome = "Success"
                  /\ Cardinality(own) = 1
                  /\ slots' = slots \ own]_vars

\* A doctor has removed a slot while holding a Booked appointment whose
\* date_time lies inside it, and another doctor's slot is still stored.
C18_Witness ==
  /\ last.op = "remove_slot"
  /\ last.outcome = "Success"
  /\ \E i \in Rows : /\ appts[i].doctor_id = last.actor
                      /\ appts[i].status = "Booked"
                      /\ Inside(appts[i].date_time, LastSlot)
  /\ \E r \in slots : r.doctor_id # last.actor

\* C19: book and reschedule are independent of the availability store: the
\* outcome and the resulting appointments are a function of the appointments
\* and the request alone, whatever slots are stored, and the slots are left
\* as they are; a booking succeeds at a doctor/time outside every slot the
\* doctor has declared.
C19_BookingIgnoresAvailability ==
  /\ [][Handled("book") =>
          LET D == last'.doctor[1]
              T == last'.dt[1]
          IN /\ slots' = slots
             /\ IF Held(appts, D, T)
                THEN last'.outcome = "ConflictError" /\ appts' = appts
                ELSE /\ last'.outcome = "Success"
                     /\ appts' = Append(appts,
                                   [patient_id |-> last'.actor,
                                    doctor_id |-> D, date_time |-> T,
                                    status |-> "Booked"])]_vars
  /\ [][Handled("reschedule") =>
          LET id == last'.target[1]
              T == last'.dt[1]
          IN /\ slots' = slots
             /\ IF appts[id].status # "Booked"
                THEN last'.outcome = "StateError" /\ appts' = appts
                ELSE IF \E j \in Rows \ {id} :
                          /\ appts[j].doctor_id = appts[id].doctor_id
                          /\ appts[j].date_time = T
                          /\ appts[j].status # "Cancelled"
                THEN last'.outcome = "ConflictError" /\ appts' = appts
                ELSE /\ last'.outcome = "Success"
                     /\ appts' = [appts EXCEPT ![id].date_time = T]]_vars

\* A booking has succeeded at a timestamp outside the only hours its doctor
\* has declared for that day.
C19_Witness ==
  /\ last.op = "book"
  /\ last.outcome = "Success"
  /\ \E r \in slots : /\ r.doctor_id = last.doctor[1]
                       /\ r.date = DateOf(last.dt[1])
  /\ \A r \in slots :
       r.doctor_id = last.doctor[1] =>
         ~Inside(last.dt[1], <<r.date, r.start_time, r.end_time>>)

\* The request ended in a validation error and wrote nothing.
Refused ==
  /\ last'.outcome = "ValidationError"
  /\ appts' = appts
  /\ treatments' = treatments
  /\ slots' = slots

\* C20: every book, reschedule or addSlot request that reaches the form with
\* a field absent, a date or time that does not parse, or a doctor
\* identifier that is no integer ends in a validation error, never in an
\* unhandled exception, and leaves the store unchanged.
C20_MalformedInputRefused ==
  [][/\ \A actor \in Patients, rd \in RawDoctor(Users), w \in RawWhen :
          (Book(actor, rd, w) /\ (rd.kind # "ok" \/ ~ParseOk(w))) => Refused
     /\ \A actor \in Patients, id \in ApptIds, w \in RawWhen :
          (/\ Reschedule(actor, id, w)
           /\ ApptOfPatient(id, actor)
           /\ ReschedulableStatus(appts[id].status)
           /\ ~ParseOk(w)) => Refused
     /\ \A actor \in Doctors, f \in SlotForms :
          (AddSlot(actor, f) /\ ~(FormComplete(f) /\ FormParses(f)))
            => Refused]_vars

\* The ids of the User table.
UserRows == 1..Len(accounts)

\* C21: no two distinct users have the same email; a register,
\* admin-create-doctor, admin-edit-patient or admin-edit-doctor request
\* that would give a user an email another user holds is rejected and
\* leaves the stored users unchanged.
C21_EmailUnique ==
  /\ [](\A u, v \in UserRows : accounts[u].email = accounts[v].email => u = v)
  /\ [][(/\ last' # last
          /\ last'.op \in {"register", "create_doctor", "edit_patient",
                            "edit_doctor"}
          /\ last'.text # None
          /\ \E u \in UserRows : /\ accounts[u].email = last'.text[1]
                                  /\ last'.target # Some(u)) =>
           (last'.outcome # "Success" /\ accounts' = accounts)]_vars

\* The admin's edit of an account was refused, the email of the form being
\* held by another account made since init_db.
C21_Witness ==
  /\ last.op \in {"edit_patient", "edit_doctor"}
  /\ last.outcome # "Success"
  /\ last.text # None
  /\ Target \in UserRows \ {AdminId}
  /\ \E u \in UserRows \ {AdminId, Target} :
       accounts[u].email = last.text[1]

\* C23: a user's role never changes after creation: register creates role
\* patient, admin creation of a doctor creates role doctor, and no operation
\* (profile edit, admin edit, toggle, login) modifies the role of an
\* existing user.
C23_RoleImmutable ==
  [][/\ \A u \in UserRows :
          u \in 1..Len(accounts') /\ accounts'[u].role = accounts[u].role
     /\ \A u \in 1..Len(accounts') \ UserRows :
          /\ last'.outcome = "Success"
          /\ last'.target = Some(u)
          /\ \/ last'.op = "register" /\ accounts'[u].role = "patient"
             \/ last'.op = "create_doctor" /\ accounts'[u].role = "doctor"]_vars

\* A patient has registered into the table that held the admin alone, and the
\* admin has given a new email to a doctor made by admin creation, who is
\* still a doctor.
C23_Witness ==
  /\ last.op = "edit_doctor"
  /\ last.outcome = "Success"
  /\ Target \in UserRows
  /\ accounts[AdminId + 1].role = "patient"
  /\ accounts[Target].role = "doctor"
  /\ accounts[Target].email = last.text[1]

\* C22: no operation deletes an appointment, a treatment or a user: across
\* every transition the ids of the three tables only grow (cancel changes the
\* status), and the only rows ever removed are availability slots removed by
\* their own doctor.
C22_NothingDeleted ==
  [][/\ Len(appts') >= Len(appts)
     /\ Len(treatments') >= Len(treatments)
     /\ Len(accounts') >= Len(accounts)
     /\ \A r \in slots \ slots' :
          /\ last'.op = "remove_slot"
          /\ last'.outcome = "Success"
          /\ last'.actor = r.doctor_id
          /\ last'.target = Some(r.id)]_vars

\* A doctor has removed a slot of theirs; a Cancelled appointment, a
\* treatment and a registered account are all still stored.
C22_Witness ==
  /\ last.op = "remove_slot"
  /\ last.outcome = "Success"
  /\ slots = {}
  /\ \E i \in Rows : appts[i].status = "Cancelled"
  /\ Len(treatments) > 0
  /\ Len(accounts) = MaxUsers

\* C26: the patient and the doctor of an appointment are fixed at creation:
\* no operation (reschedule, cancel, complete, edit, deactivation) changes
\* the patient_id or doctor_id of an existing appointment, and the patient
\* of a newly booked appointment is the acting patient.
C26_PartiesFixed ==
  [][/\ \A i \in Rows :
          /\ i <= Len(appts')
          /\ appts'[i].patient_id = appts[i].patient_id
          /\ appts'[i].doctor_id = appts[i].doctor_id
     /\ \A j \in 1..Len(appts') \ Rows :
          /\ last'.op = "book"
          /\ last'.target = Some(j)
          /\ appts'[j].patient_id = last'.actor
          /\ appts'[j].doctor_id = last'.doctor[1]]_vars

\* The admin has edited a patient whose appointments, one of them moved or
\* completed since it was booked, are with a doctor now deactivated.
C26_Witness ==
  /\ last.op = "edit_patient"
  /\ last.outcome = "Success"
  /\ \E i \in Rows : /\ appts[i].patient_id = Target
                      /\ appts[i].status = "Completed"
                      /\ ~active[appts[i].doctor_id]
  /\ \E i \in Rows : appts[i].patient_id # Target

\* C24: listUpcoming for doctor D with fromDate = today and windowDays = 7
\* returns exactly the slots of D whose date d satisfies
\* today <= d <= today + 7, ordered ascending by date and then by start_time.
C24_ListUpcoming ==
  [][(last' # last /\ last'.op = "list_slots"
        /\ last'.outcome = "Success") =>
       LET D == last'.actor
           today == DateOf(now)
           res == last'.text[1]
       IN /\ {res[i] : i \in 1..Len(res)} =
               {r \in slots : /\ r.doctor_id = D
                              /\ today <= r.date
                              /\ r.date <= today + 7}
          /\ \A i, j \in 1..Len(res) :
               i < j => \/ res[i].date < res[j].date
                        \/ /\ res[i].date = res[j].date
                           /\ res[i].start_time < res[j].start_time]_vars

\* A doctor's list of two slots ends with the slot of the seventh day after
\* today and starts with a slot of a higher id, and the doctor's slot of the
\* eighth day is left out.
C24_Witness ==
  /\ last.op = "list_slots"
  /\ last.outcome = "Success"
  /\ LET res == last.text[1]
     IN /\ Len(res) = 2
        /\ res[1].id > res[2].id
        /\ res[2].date = DateOf(now) + 7
  /\ \E r \in slots : r.doctor_id = last.actor /\ r.date = DateOf(now) + 8

\* C25: when a patient's cancel and the doctor's complete of one Booked
\* future appointment run concurrently, each as a read and check followed by
\* a separate write and commit, a Treatment is still attached only to a
\* Completed appointment once both have committed: no interleaving ends
\* with status Cancelled and a Treatment row attached.
C25_TreatmentOnlyOnCompleted ==
  (\A wk \in Workers : inflight[wk] = None) =>
    \A k \in 1..Len(treatments) :
      appts[treatments[k].appointment_id].status = "Completed"

\* C27: book and reschedule do not relate the timestamp to the current time:
\* both accept a well-formed timestamp strictly before now, so a Booked
\* appointment with date_time < now is reachable; it cannot be cancelled
\* (past-date error) but can be rescheduled or completed, and once its
\* date_time is >= now it can be cancelled.
C27_PastTimestamps ==
  /\ [][(/\ Handled("book")
          /\ last'.outcome \notin {"ValidationError", "Crash"}
          /\ last'.dt[1] < now
          /\ ~Held(appts, last'.doctor[1], last'.dt[1])) =>
           (/\ last'.outcome = "Success"
            /\ appts'[Len(appts')].status = "Booked"
            /\ appts'[Len(appts')].date_time < now')]_vars
  /\ [][(/\ Handled("reschedule")
          /\ last'.dt # None
          /\ appts[last'.target[1]].status = "Booked"
          /\ appts[last'.target[1]].date_time < now) =>
           LET id == last'.target[1]
               T == last'.dt[1]
           IN \/ /\ last'.outcome = "Success"
                 /\ appts'[id].date_time = T
              \/ /\ last'.outcome = "ConflictError"
                 /\ \E j \in Rows \ {id} :
                      /\ appts[j].doctor_id = appts[id].doctor_id
                      /\ appts[j].date_time = T
                      /\ appts[j].status # "Cancelled"]_vars
  /\ [][(/\ Handled("cancel")
          /\ appts[last'.target[1]].status = "Booked") =>
           LET id == last'.target[1]
           IN IF appts[id].date_time < now
              THEN last'.outcome = "PastDateError" /\ appts' = appts
              ELSE /\ last'.outcome = "Success"
                   /\ appts'[id].status = "Cancelled"]_vars
  /\ [][(/\ Handled("complete")
          /\ appts[last'.target[1]].status = "Booked"
          /\ appts[last'.target[1]].date_time < now) =>
           (/\ last'.outcome = "Success"
            /\ appts'[last'.target[1]].status = "Completed")]_vars

\* An appointment has been booked at a timestamp before the current time
\* and is Booked.
C27_Witness ==
  /\ last.op = "book"
  /\ last.outcome = "Success"
  /\ last.dt[1] < now
  /\ appts[Target].status = "Booked"
  /\ appts[Target].date_time < now

====
